---- MODULE Spec2Model ----
(***************************************************************************)
(* Model of the attendance service of src/main.py: the two tables of the   *)
(* SQLite store, the eight request handlers, and the last request/response *)
(* exchanged with a client.                                                *)
(*                                                                         *)
(* The store is the file attendance.db, which outlives the process, so the *)
(* initial state ranges over small pre-existing table contents.            *)
(***************************************************************************)
EXTENDS Integers, Sequences, FiniteSets, TLC

\* ------------------------------------------------------------ bounds ----
MaxStudents == 2
MaxAttendance == 2

\* ------------------------------------------------------- input domains ----
Names == {"Alice", "Bob"}
ClassNames == {"10A", "10B"}
Dates == { [y |-> 2024, m |-> 3, d |-> 1],
           [y |-> 2024, m |-> 3, d |-> 15],
           [y |-> 2024, m |-> 4, d |-> 1] }
Threads == {"t1", "t2"}
Keys == {"student_id", "date", "status"}

\* path parameters tried for the two date-prefix listings
Prefixes == { <<>>,
              <<"2","0","2","4","-","0","3">>,
              <<"2","0","2","4","-","0","3","-","1","5">>,
              <<"2","0","2","4","-","0","4","-","0","1","1">> }

\* request bodies of POST /students (PostStudent schema)
PostStudent == [name : Names, class_name : ClassNames]

\* request bodies of POST /attendance: dicts that carry any subset of the
\* three keys; has[k] tells whether key k is present
PayloadDate == [y |-> 2024, m |-> 3, d |-> 15]
PayloadStatus == "Present"
Payload(has, sid) ==
    [k \in {j \in Keys : has[j]} |->
        IF k = "student_id" THEN sid
        ELSE IF k = "date" THEN PayloadDate ELSE PayloadStatus]

\* ---------------------------------------------------------------- state ----
VARIABLES students,    \* table "students", in insertion order
          attendance,  \* table "attendance", in insertion order
          req,         \* the latest request handled
          resp,        \* the response to it
          prev,        \* the delete or restore handled just before it, if any
          snap,        \* both tables as they were before the latest request
          pc,          \* per worker thread: position inside add_student
          local        \* per worker thread: add_student's locals

vars == <<students, attendance, req, resp, prev, snap, pc, local>>

\* ------------------------------------------------------------- schemas ----
NoExc == [type |-> "none", status_code |-> 0, detail |-> ""]

HTTPException(code, detail) ==
    [type |-> "HTTPException", status_code |-> code, detail |-> detail]

ResponseModel(method, param, record, msg, e) ==
    [status |-> 200, kind |-> "ResponseModel",
     body |-> [request_method |-> method, param |-> param, record |-> record,
               data |-> [msg |-> msg, e |-> e]]]

\* an exception that leaves the handler: FastAPI answers an HTTPException
\* with its status code, anything else with 500
Raised(e) ==
    [status |-> IF e.type = "HTTPException" THEN e.status_code ELSE 500,
     kind |-> "error", body |-> e]

Attendance(a) ==
    [student_id |-> a.student_id, date |-> a.date, status |-> a.status,
     is_deleted |-> a.is_deleted]

Ids(table) == {table[i].id : i \in 1 .. Len(table)}


Min(S) == CHOOSE x \in S : \A z \in S : x <= z
Max(S) == CHOOSE x \in S : \A z \in S : x >= z

\* autoincrementing integer primary key
NextId(table) == IF table = <<>> THEN 1 ELSE Max(Ids(table)) + 1

\* query(...).filter(id == i).first(): position of the row, 0 for None
FirstById(table, i) ==
    LET m == {k \in 1 .. Len(table) : table[k].id = i}
    IN IF m = {} THEN 0 ELSE Min(m)

Store(studs, att, r) == [students |-> studs, attendance |-> att, resp |-> r]

\* ------------------------------------------------------ POST /students ----
\* line 68: first student row whose name equals the posted name
ExistingStudentByNameAndClass(studs, student) ==
    LET m == {k \in 1 .. Len(studs) :
                 /\ studs[k].name = student.name
                 /\ studs[k].class_name = student.class_name}
    IN IF m = {} THEN 0 ELSE Min(m)

ExistingStudent(studs, student) ==
    LET m == {k \in 1 .. Len(studs) : studs[k].name = student.name}
    IN IF m = {} THEN 0 ELSE Min(m)

\* lines 69-88: what add_student does once the lookup returned `existing`
add_student_commit(studs, att, student, existing) ==
    IF existing # 0
    THEN Store(studs, att,
               ResponseModel("POST", student, "Student", "Error occurred: ",
                             HTTPException(400, "Student already exists")))
    ELSE Store(Append(studs, [id |-> NextId(studs), name |-> student.name,
                              class_name |-> student.class_name]),
               att,
               ResponseModel("POST", student, "Student",
                             "Successfully Added Student.", NoExc))

add_student(studs, att, student) ==
    add_student_commit(studs, att, student, ExistingStudent(studs, student))

\* ------------------------------------------------------- GET /students ----
StudentOut(s) == [name |-> s.name, class_name |-> s.class_name]

get_students(studs, att) ==
    Store(studs, att,
          [status |-> 200, kind |-> "list",
           body |-> [k \in 1 .. Len(studs) |-> StudentOut(studs[k])]])

\* ---------------------------------------------------- POST /attendance ----
\* lines 97-110: line 106 reads the name x, which nothing binds, so the call
\* raises NameError before either branch assigns is_valid
attendance_isValid(data) ==
    [raised |-> [type |-> "NameError", status_code |-> 0,
                 detail |-> "name 'x' is not defined"],
     value |-> FALSE]

\* lines 115-133: the exception the try block ends with.  Past the validator
\* the body reads new_attendance_data.student_id, an attribute a dict lacks.
add_attendance_try(studs, att, data) ==
    LET v == attendance_isValid(data)
    IN IF v.raised.type # "none" THEN v.raised
       ELSE IF ~v.value THEN HTTPException(404, "Invalid Input Paramters")
       ELSE [type |-> "AttributeError", status_code |-> 0,
             detail |-> "'dict' object has no attribute 'student_id'"]

\* lines 134-140: the handler builds its envelope from
\* new_attendance_data.dict(); a dict has no such method, so the handler
\* itself raises and the exception leaves add_attendance
add_attendance(studs, att, data) ==
    LET caught == add_attendance_try(studs, att, data)
    IN Store(studs, att,
             Raised([type |-> "AttributeError", status_code |-> 0,
                     detail |-> "'dict' object has no attribute 'dict'",
                     context |-> caught]))

\* ------------------------------------------------- GET /attendance/... ----
Digit(n) == CASE n = 0 -> "0" [] n = 1 -> "1" [] n = 2 -> "2" [] n = 3 -> "3"
              [] n = 4 -> "4" [] n = 5 -> "5" [] n = 6 -> "6" [] n = 7 -> "7"
              [] n = 8 -> "8" [] n = 9 -> "9"

\* date.strftime("%Y-%m-%d"): zero-padded year, month and day
strftime(dt) ==
    << Digit((dt.y \div 1000) % 10), Digit((dt.y \div 100) % 10),
       Digit((dt.y \div 10) % 10), Digit(dt.y % 10), "-",
       Digit((dt.m \div 10) % 10), Digit(dt.m % 10), "-",
       Digit((dt.d \div 10) % 10), Digit(dt.d % 10) >>

\* str.startswith
startswith(str, prefix) ==
    /\ Len(prefix) <= Len(str)
    /\ \A i \in 1 .. Len(prefix) : str[i] = prefix[i]

RECURSIVE Filter(_, _, _)
Filter(rows, flag, day_month) ==
    IF rows = <<>> THEN <<>>
    ELSE LET a == Head(rows)
             rest == Filter(Tail(rows), flag, day_month)
         IN IF a.is_deleted = flag /\ startswith(strftime(a.date), day_month)
            THEN <<a>> \o rest ELSE rest

List(rows) ==
    [status |-> 200, kind |-> "list",
     body |-> [k \in 1 .. Len(rows) |-> Attendance(rows[k])]]

get_all_attendance(studs, att) == Store(studs, att, List(att))

get_active_attendance_unfiltered(studs, att, day_month) ==
    Store(studs, att, List(Filter(att, FALSE, day_month) \o Filter(att, TRUE, day_month)))

get_active_attendance(studs, att, day_month) ==
    Store(studs, att, List(Filter(att, FALSE, day_month)))

get_deleted_attendance(studs, att, day_month) ==
    Store(studs, att, List(Filter(att, TRUE, day_month)))

\* ------------------------------------- DELETE /attendance/{id}, restore ----
SetDeleted(att, k, flag) == [att EXCEPT ![k].is_deleted = flag]

Message(text, id) ==
    [status |-> 200, kind |-> "json", body |-> [message |-> text, id |-> id]]

delete_attendance_toggle(studs, att, attendance_id) ==
    LET k == FirstById(att, attendance_id)
    IN IF k = 0
       THEN Store(studs, att, Raised(HTTPException(404, "Record not found")))
       ELSE Store(studs, SetDeleted(att, k, ~att[k].is_deleted),
                  Message("Attendance marked as deleted", attendance_id))

delete_attendance(studs, att, attendance_id) ==
    LET k == FirstById(att, attendance_id)
    IN IF k = 0
       THEN Store(studs, att, Raised(HTTPException(404, "Record not found")))
       ELSE Store(studs, SetDeleted(att, k, TRUE),
                  Message("Attendance marked as deleted", attendance_id))

restore_attendance_all(studs, att, attendance_id) ==
    LET k == FirstById(att, attendance_id)
    IN IF k = 0
       THEN Store(studs, att, Raised(HTTPException(404, "Record not found")))
       ELSE Store(studs, [i \in 1 .. Len(att) |-> [att[i] EXCEPT !.is_deleted = FALSE]],
                  Message("Attendance restored", attendance_id))

restore_attendance_lenient(studs, att, attendance_id) ==
    LET k == FirstById(att, attendance_id)
    IN IF k = 0
       THEN Store(studs, att, Message("Attendance restored", attendance_id))
       ELSE Store(studs, SetDeleted(att, k, FALSE),
                  Message("Attendance restored", attendance_id))

restore_attendance(studs, att, attendance_id) ==
    LET k == FirstById(att, attendance_id)
    IN IF k = 0
       THEN Store(studs, att, Raised(HTTPException(404, "Record not found")))
       ELSE Store(studs, SetDeleted(att, k, FALSE),
                  Message("Attendance restored", attendance_id))

\* ------------------------------------------------------- initial state ----
\* give row k of a table the primary key k
WithIds(rows) == [k \in 1 .. Len(rows) |-> [id |-> k] @@ rows[k]]

\* attendance.db as found at start-up: no student yet, or one
InitStudentTables ==
    { <<>>, WithIds(<<[name |-> "Alice", class_name |-> "10A"]>>) }

\* every pre-existing attendance row is a "Present" row of an existing student
InitStatuses == {"Present"}

InitAttendanceTables(studs) ==
    { WithIds(t) : t \in UNION { [1 .. n -> [student_id : Ids(studs), date : Dates,
                                            status : InitStatuses, is_deleted : BOOLEAN]] :
                                 n \in 0 .. MaxAttendance } }

NoTables == [students |-> <<>>, attendance |-> <<>>]

NoLocal == [student |-> [name |-> "", class_name |-> ""], existing |-> 0]

Init ==
    /\ students \in InitStudentTables
    /\ attendance \in InitAttendanceTables(students)
    /\ req = [op |-> "none", arg |-> 0]
    /\ resp = [status |-> 0, kind |-> "none", body |-> 0]
    /\ prev = [op |-> "other", id |-> 0, status |-> 0, before |-> NoTables]
    /\ snap = [students |-> students, attendance |-> attendance]
    /\ pc = [t \in Threads |-> "idle"]
    /\ local = [t \in Threads |-> NoLocal]

\* ------------------------------------------------------------- actions ----
\* what is remembered of a request once the next one is handled: route,
\* path id and status of a delete or restore and the tables it started
\* from; nothing of any other request
Remember(r, rs, sn) ==
    IF r.op \in {"delete_attendance", "restore_attendance"}
    THEN [op |-> r.op, id |-> r.arg, status |-> rs.status, before |-> sn]
    ELSE [op |-> "other", id |-> 0, status |-> 0, before |-> NoTables]

\* one request r handled to completion with outcome out
Reply(r, out) ==
    /\ students' = out.students
    /\ attendance' = out.attendance
    /\ resp' = out.resp
    /\ req' = r
    /\ prev' = Remember(req, resp, snap)
    /\ snap' = [students |-> students, attendance |-> attendance]

AddStudent ==
    \E student \in PostStudent :
        /\ Len(students) < MaxStudents \/ ExistingStudent(students, student) # 0
        /\ Reply([op |-> "add_student", arg |-> student],
                 add_student(students, attendance, student))
        /\ UNCHANGED <<pc, local>>

GetStudents ==
    /\ Reply([op |-> "get_students", arg |-> 0], get_students(students, attendance))
    /\ UNCHANGED <<pc, local>>

AddAttendance ==
    \E has \in [Keys -> BOOLEAN] :
      \E sid \in IF has["student_id"] THEN {1, NextId(students)} ELSE {1} :
        /\ Reply([op |-> "add_attendance", arg |-> Payload(has, sid)],
                 add_attendance(students, attendance, Payload(has, sid)))
        /\ UNCHANGED <<pc, local>>

GetAllAttendance ==
    /\ Reply([op |-> "get_all_attendance", arg |-> 0],
             get_all_attendance(students, attendance))
    /\ UNCHANGED <<pc, local>>

GetActiveAttendance ==
    \E day_month \in Prefixes :
        /\ Reply([op |-> "get_active_attendance", arg |-> day_month],
                 get_active_attendance(students, attendance, day_month))
        /\ UNCHANGED <<pc, local>>

GetDeletedAttendance ==
    \E day_month \in Prefixes :
        /\ Reply([op |-> "get_deleted_attendance", arg |-> day_month],
                 get_deleted_attendance(students, attendance, day_month))
        /\ UNCHANGED <<pc, local>>

DeleteAttendance ==
    \E attendance_id \in 1 .. (MaxAttendance + 1) :
        /\ Reply([op |-> "delete_attendance", arg |-> attendance_id],
                 delete_attendance(students, attendance, attendance_id))
        /\ UNCHANGED <<pc, local>>

RestoreAttendance ==
    \E attendance_id \in 1 .. (MaxAttendance + 1) :
        /\ Reply([op |-> "restore_attendance", arg |-> attendance_id],
                 restore_attendance(students, attendance, attendance_id))
        /\ UNCHANGED <<pc, local>>

Next ==
    \/ AddStudent
    \/ GetStudents
    \/ AddAttendance
    \/ GetAllAttendance
    \/ GetActiveAttendance
    \/ GetDeletedAttendance
    \/ DeleteAttendance
    \/ RestoreAttendance

Spec == Init /\ [][Next]_vars

\* ------------------------------ POST /students on two worker threads ----
\* add_student is a plain def, which FastAPI runs on a thread pool; its
\* SELECT (line 68) and its INSERT + COMMIT (lines 73-74) are separate
\* statements, and another request's statements may run between them.
InFlight == Cardinality({t \in Threads : pc[t] = "checked" /\ local[t].existing = 0})

AddStudentLookup(t) ==
    \E student \in PostStudent :
        /\ pc[t] = "idle"
        /\ Len(students) + InFlight < MaxStudents
        /\ pc' = [pc EXCEPT ![t] = "checked"]
        /\ local' = [local EXCEPT ![t] = [student |-> student,
                                          existing |-> ExistingStudent(students, student)]]
        /\ UNCHANGED <<students, attendance, req, resp, prev, snap>>

AddStudentCommit(t) ==
    /\ pc[t] = "checked"
    /\ Reply([op |-> "add_student", arg |-> local[t].student],
             add_student_commit(students, attendance, local[t].student, local[t].existing))
    /\ pc' = [pc EXCEPT ![t] = "idle"]
    /\ local' = [local EXCEPT ![t] = NoLocal]

NextConc == \E t \in Threads : AddStudentLookup(t) \/ AddStudentCommit(t)

SpecConc == Init /\ [][NextConc]_vars

\* ---------------------------------------------------------- properties ----
Tables == [students |-> students, attendance |-> attendance]

\* the error a response reports, inside an envelope or as an HTTP error
Outcome(rs) ==
    IF rs.kind = "ResponseModel" THEN rs.body.data.e
    ELSE IF rs.kind = "error" THEN rs.body
    ELSE NoExc

WellFormed(data) == Keys \subseteq DOMAIN data

NameCount(studs, n) == Cardinality({k \in 1 .. Len(studs) : studs[k].name = n})

\* C1: a POST /attendance whose payload carries student_id, date and status
\* and names an existing student adds exactly one record, with
\* is_deleted = false, and changes nothing else.
C1_AddCreatesOneRecord ==
    (/\ req.op = "add_attendance"
     /\ WellFormed(req.arg)
     /\ req.arg["student_id"] \in Ids(snap.students))
    => /\ Len(attendance) = Len(snap.attendance) + 1
       /\ SubSeq(attendance, 1, Len(snap.attendance)) = snap.attendance
       /\ attendance[Len(attendance)].is_deleted = FALSE
       /\ students = snap.students

\* C2: a POST /attendance whose payload misses student_id, date or status
\* fails with the InvalidInput outcome and leaves both tables as they were.
C2_MissingFieldInvalidInput ==
    (req.op = "add_attendance" /\ ~WellFormed(req.arg))
    => /\ Outcome(resp).detail = "Invalid Input Paramters"
       /\ Tables = snap

\* C3: a well-formed POST /attendance naming no existing student fails with
\* the student-not-found outcome and persists nothing, and every attendance
\* row refers to an existing student.
C3_UnknownStudentNotFound ==
    /\ (/\ req.op = "add_attendance"
        /\ WellFormed(req.arg)
        /\ req.arg["student_id"] \notin Ids(snap.students))
       => /\ Outcome(resp).detail = "Student not found"
          /\ Tables = snap
    /\ \A k \in 1 .. Len(attendance) : attendance[k].student_id \in Ids(students)

\* C4: no two student rows carry the same name, also when POST /students
\* requests interleave between their lookup and their insert.
C4_NamesUniqueInterleaved ==
    \A i, j \in 1 .. Len(students) : students[i].name = students[j].name => i = j

\* C5: run one after the other, a POST /students for a name not yet stored
\* creates one student, and a POST /students for a stored name (whatever the
\* class_name) creates none and reports "Student already exists"; no name is
\* ever stored twice.
C5_SequentialDuplicateRejected ==
    /\ req.op = "add_student" =>
         IF NameCount(snap.students, req.arg.name) = 0
         THEN /\ Len(students) = Len(snap.students) + 1
              /\ SubSeq(students, 1, Len(snap.students)) = snap.students
              /\ students[Len(students)].name = req.arg.name
              /\ Outcome(resp) = NoExc
         ELSE /\ students = snap.students
              /\ Outcome(resp).detail = "Student already exists"
    /\ \A n \in Names : NameCount(students, n) <= 1

C5_Witness ==
    /\ req.op = "add_student"
    /\ req.arg.name = "Bob"
    /\ Outcome(resp).detail = "Student already exists"
    /\ NameCount(students, "Bob") = 1

\* the latest request repeats, or follows, a delete/restore of the same
\* existing attendance id
After(first, second) ==
    /\ prev.op = first
    /\ req.op = second
    /\ req.arg = prev.id
    /\ prev.id \in Ids(prev.before.attendance)

\* C6: deleting an existing id twice succeeds twice and the second delete
\* leaves the tables as the first left them, the row deleted; the same for
\* restoring twice, the row not deleted.
C6_DeleteRestoreIdempotent ==
    /\ After("delete_attendance", "delete_attendance")
       => /\ prev.status = 200 /\ resp.status = 200
          /\ Tables = snap
          /\ attendance[FirstById(attendance, req.arg)].is_deleted = TRUE
    /\ After("restore_attendance", "restore_attendance")
       => /\ prev.status = 200 /\ resp.status = 200
          /\ Tables = snap
          /\ attendance[FirstById(attendance, req.arg)].is_deleted = FALSE

C6_Witness ==
    /\ After("delete_attendance", "delete_attendance")
    /\ prev.before.attendance[FirstById(attendance, req.arg)].is_deleted = FALSE
    /\ resp.status = 200

\* C7: deleting a not-deleted record and then restoring it brings both tables
\* back to what they were; in between only that record's flag differs.
C7_DeleteThenRestoreRoundTrip ==
    (/\ After("delete_attendance", "restore_attendance")
     /\ prev.before.attendance[FirstById(prev.before.attendance, prev.id)].is_deleted = FALSE)
    => LET k == FirstById(prev.before.attendance, prev.id)
       IN /\ prev.status = 200 /\ resp.status = 200
          /\ Tables = prev.before
          /\ snap.students = prev.before.students
          /\ snap.attendance = [prev.before.attendance EXCEPT ![k].is_deleted = TRUE]

C7_Witness ==
    /\ After("delete_attendance", "restore_attendance")
    /\ prev.before.attendance[FirstById(prev.before.attendance, prev.id)].is_deleted = FALSE
    /\ Len(attendance) >= 2
    /\ \E k \in 1 .. Len(attendance) : attendance[k].is_deleted
    /\ resp.status = 200

\* the three calendar dates of the model written out as YYYY-MM-DD
Rendered(dt) ==
    CASE dt = [y |-> 2024, m |-> 3, d |-> 1]  -> <<"2","0","2","4","-","0","3","-","0","1">>
      [] dt = [y |-> 2024, m |-> 3, d |-> 15] -> <<"2","0","2","4","-","0","3","-","1","5">>
      [] dt = [y |-> 2024, m |-> 4, d |-> 1]  -> <<"2","0","2","4","-","0","4","-","0","1">>

BeginsWith(str, prefix) ==
    Len(prefix) <= Len(str) /\ SubSeq(str, 1, Len(prefix)) = prefix

\* the rows with the given flag whose rendered date begins with the prefix,
\* in table order, without their ids
Listing(rows, flag, prefix) ==
    LET Keep(a) == a.is_deleted = flag /\ BeginsWith(Rendered(a.date), prefix)
        kept == SelectSeq(rows, Keep)
    IN [k \in 1 .. Len(kept) |->
          [student_id |-> kept[k].student_id, date |-> kept[k].date,
           status |-> kept[k].status, is_deleted |-> kept[k].is_deleted]]

\* C8: the active listing holds exactly the not-deleted records whose date,
\* rendered YYYY-MM-DD, starts with the prefix, the deleted listing exactly
\* the deleted ones; the two share no record and together make up the
\* prefix-matching records of the full listing.
C8_PrefixListingsPartition ==
    /\ req.op = "get_active_attendance"
       => resp.status = 200 /\ resp.body = Listing(attendance, FALSE, req.arg)
    /\ req.op = "get_deleted_attendance"
       => resp.status = 200 /\ resp.body = Listing(attendance, TRUE, req.arg)
    /\ \A p \in Prefixes :
         LET active == get_active_attendance(students, attendance, p).resp.body
             deleted == get_deleted_attendance(students, attendance, p).resp.body
             all == get_all_attendance(students, attendance).resp.body
             Match(a) == BeginsWith(Rendered(a.date), p)
             Live(a) == Match(a) /\ ~a.is_deleted
             Gone(a) == Match(a) /\ a.is_deleted
         IN /\ active = SelectSeq(all, Live)
            /\ deleted = SelectSeq(all, Gone)
            /\ {active[i] : i \in 1 .. Len(active)}
                 \cap {deleted[i] : i \in 1 .. Len(deleted)} = {}
            /\ Len(active) + Len(deleted) = Len(SelectSeq(all, Match))

C8_Witness ==
    /\ req.op = "get_active_attendance"
    /\ req.arg = <<"2","0","2","4","-","0","3">>
    /\ prev.op = "delete_attendance" /\ prev.status = 200
    /\ ~prev.before.attendance[FirstById(attendance, prev.id)].is_deleted
    /\ Rendered(attendance[FirstById(attendance, prev.id)].date)
         = <<"2","0","2","4","-","0","3","-","1","5">>
    /\ Len(resp.body) = 1
    /\ Len(attendance) = 2

\* C9: a delete or restore of an id no attendance row has fails with
\* HTTP 404 "Record not found" and leaves both tables as they were.
C9_MissingIdNotFound ==
    (/\ req.op \in {"delete_attendance", "restore_attendance"}
     /\ req.arg \notin Ids(snap.attendance))
    => /\ resp.status = 404
       /\ resp.kind = "error"
       /\ resp.body.detail = "Record not found"
       /\ Tables = snap

C9_Witness ==
    /\ req.op = "restore_attendance"
    /\ req.arg \notin Ids(snap.attendance)
    /\ Len(attendance) >= 1
    /\ resp.status = 404

\* C10: every failure of a write request (POST /students, POST /attendance)
\* reaches the caller as an HTTP 200 envelope whose data carries the error.
C10_WriteFailuresAreEnvelopes ==
    (/\ req.op \in {"add_student", "add_attendance"}
     /\ Outcome(resp) # NoExc)
    => /\ resp.status = 200
       /\ resp.kind = "ResponseModel"
====
